---- MODULE Spec2Model ----
(***************************************************************************)
(* JBerry: the bridge double-dummy solver pipeline (src/Solver.py) and the *)
(* Flask layer that calls it, keeps the history and runs the lobby         *)
(* (src/main.py).                                                          *)
(*                                                                         *)
(* Python values are modelled as follows.                                  *)
(*   str    a sequence of one-character strings ("AS" is <<"A","S">>);     *)
(*          text built by an f-string is a sequence of chunks, the literal *)
(*          part as one chunk and the interpolated part as its characters. *)
(*   bytes  a sequence of integers 0..255.                                 *)
(*   dict   a sequence of [key, val] items with distinct keys, in          *)
(*          insertion order (hands_dict items carry player/cards).         *)
(*   c_uint an integer; its bits are read with \div and %.                 *)
(*   None   as an occupant of a seat, the string "None", which is no       *)
(*          address.                                                       *)
(* The engine (libdds.so) is outside the repository: each of its calls is  *)
(* a nondeterministic step that returns any code and any output buffer, or *)
(* raises.                                                                 *)
(***************************************************************************)
EXTENDS Integers, Sequences, FiniteSets, TLC

VARIABLES
    pc,            \* position of the running solve: "idle", "CalcDDtable", "Par", "returned";
                   \* of a running solve_debug_console: "ConsoleCalcDDtable", "returned"
    hands_dict,    \* solve's first argument
    round_num,     \* solve's second argument, a tagged Python value
    deal,          \* deal.cards, the 4x4 mask table [seat][suit]
    total_cards,   \* the accepted-token counter
    table,         \* table.resTable as filled by CalcDDtable
    res_dd,        \* <<>> until CalcDDtable returned, then <<its code>>
    res_par,       \* <<>> until Par returned, then <<its code>>
    pres,          \* the parResults struct: zeroed until Par filled it
    result_data,   \* the envelope solve builds and returns
    calls,         \* every engine entry point invoked by the running solve, in order
    raised,        \* the exceptions raised inside solve: where, and which
    propagated,    \* TRUE when an exception left solve
    caller,        \* who called: "direct" or "solve_api" for solve, "console" for
                   \* solve_debug_console
    GLOBAL_CONFIG, \* GLOBAL_CONFIG["round"]
    HISTORY_LOG,   \* the history entries, oldest first
    bid_contract,  \* solve_api's local bid_contract
    ok_results,    \* optimal_contract and score of every envelope solve_api got with status "ok"
    response,      \* the last HTTP response: its code, the "status" of its body and the
                   \* id of the entry the body carries, if any
    TABLE_STATE,   \* the occupant of each seat, None for a free one
    requests,      \* the toggle_seat request each user has in progress: its position and locals
    stdout         \* the lines the latest solve_debug_console call printed

vars == <<pc, hands_dict, round_num, deal, total_cards, table, res_dd, res_par, pres,
          result_data, calls, raised, propagated, caller, GLOBAL_CONFIG, HISTORY_LOG, bid_contract, ok_results,
          response, TABLE_STATE, requests, stdout>>

solver_vars == <<pc, hands_dict, round_num, deal, total_cards, table, res_dd, res_par,
                 pres, result_data, calls, raised, propagated, caller>>
lobby_vars == <<TABLE_STATE, requests>>
web_vars == <<GLOBAL_CONFIG, HISTORY_LOG, bid_contract, ok_results, response, lobby_vars, stdout>>

----------------------------------------------------------------------------
(* Bounds of the model *)

\* positions of a seat's list that the enumerated inputs edit
MaxPos == 2
\* solve is given the rounds -MaxRound..MaxRound
MaxRound == 18
\* solve_api is not called once the history holds this many entries
MaxHistory == 2

\* the contract buffers of SpecContract hold up to MaxLen bytes
MaxLen == 4

----------------------------------------------------------------------------
(* Integers as bit masks *)

\* BitOr with + in place of |
BitAdd(x, y) == x + y

RECURSIVE BitOr(_, _)
BitOr(x, y) ==
    IF x = 0 THEN y
    ELSE IF y = 0 THEN x
    ELSE (IF x % 2 = 1 \/ y % 2 = 1 THEN 1 ELSE 0) + 2 * BitOr(x \div 2, y \div 2)

RECURSIVE PopCount(_)
PopCount(x) == IF x = 0 THEN 0 ELSE (x % 2) + PopCount(x \div 2)

BitSet(x, k) == (x \div (2 ^ k)) % 2 = 1

RECURSIVE SumSeq(_)
SumSeq(s) == IF s = <<>> THEN 0 ELSE Head(s) + SumSeq(Tail(s))

----------------------------------------------------------------------------
(* Text *)

\* the letters that occur in the inputs; every other character used is caseless
LowerOf == [c \in {"A", "K", "Q", "J", "T", "S", "H", "D", "C", "X", "N"} |->
              CASE c = "A" -> "a" [] c = "K" -> "k" [] c = "Q" -> "q"
                [] c = "J" -> "j" [] c = "T" -> "t" [] c = "S" -> "s"
                [] c = "H" -> "h" [] c = "D" -> "d" [] c = "C" -> "c"
                [] c = "X" -> "x" [] c = "N" -> "n"]

UpperOf == [c \in {LowerOf[u] : u \in DOMAIN LowerOf} |->
              CHOOSE u \in DOMAIN LowerOf : LowerOf[u] = c]

\* str.upper() on one character
Upper(c) == IF c \in DOMAIN UpperOf THEN UpperOf[c] ELSE c

Lower(c) == IF c \in DOMAIN LowerOf THEN LowerOf[c] ELSE c

DigitChar == <<"0", "1", "2", "3", "4", "5", "6", "7", "8", "9">>

RECURSIVE FormatNat(_)
FormatNat(n) ==
    IF n < 10 THEN <<DigitChar[n + 1]>>
    ELSE FormatNat(n \div 10) \o <<DigitChar[(n % 10) + 1]>>

\* str(n) of an int, as an f-string interpolates it
FormatInt(n) == IF n < 0 THEN <<"-">> \o FormatNat(-n) ELSE FormatNat(n)

\* s contains t as a run of consecutive elements
Contains(s, t) ==
    \E i \in 1..(Len(s) - Len(t) + 1) : SubSeq(s, i, i + Len(t) - 1) = t

----------------------------------------------------------------------------
(* BridgeSolver.__init__: the mappings *)

SuitMap == [c \in {"S", "H", "D", "C"} |->
              CASE c = "S" -> 0 [] c = "H" -> 1 [] c = "D" -> 2 [] c = "C" -> 3]

HandMap == [c \in {"N", "E", "S", "W"} |->
              CASE c = "N" -> 0 [] c = "E" -> 1 [] c = "S" -> 2 [] c = "W" -> 3]

RankMap == [c \in {"2", "3", "4", "5", "6", "7", "8", "9", "T", "J", "Q", "K", "A"} |->
              CASE c = "2" -> 2 ^ 2 [] c = "3" -> 2 ^ 3 [] c = "4" -> 2 ^ 4
                [] c = "5" -> 2 ^ 5 [] c = "6" -> 2 ^ 6 [] c = "7" -> 2 ^ 7
                [] c = "8" -> 2 ^ 8 [] c = "9" -> 2 ^ 9 [] c = "T" -> 2 ^ 10
                [] c = "J" -> 2 ^ 11 [] c = "Q" -> 2 ^ 12 [] c = "K" -> 2 ^ 13
                [] c = "A" -> 2 ^ 14]

----------------------------------------------------------------------------
(* Python values that are not of the expected type *)

\* None where a str is expected (a JSON null among the cards)
NoneValue == <<"None">>

IntRound(r) == [type |-> "int", val |-> r]
NoneRound == [type |-> "NoneType", val |-> 0]

\* an exception: its class and str(e); NoExc when nothing was raised
Exc(class, text) == [class |-> class, text |-> text]
NoExc == Exc("", "")

TypeErrorLen == Exc("TypeError", "object of type 'NoneType' has no len()")
TypeErrorSub == Exc("TypeError", "unsupported operand type(s) for -: 'NoneType' and 'int'")
OSErrorCall == Exc("OSError", "exception: access violation reading 0x0000000000000000")
UnicodeError == Exc("UnicodeDecodeError", "'utf-8' codec can't decode byte 0xff")

\* Catches with "except ValueError" in place of "except Exception"
CatchesValueError(exc) == exc.class \in {"UnicodeDecodeError"}

\* the subclasses of Exception among the classes above: "except Exception" takes them
Catches(exc) == exc.class \in {"TypeError", "OSError", "UnicodeDecodeError"}

----------------------------------------------------------------------------
(* BridgeSolver.solve, lines 196-215: hands_dict -> deal.cards, total_cards *)

ZeroCards == [p \in 0..3 |-> [s \in 0..3 |-> 0]]

\* AddCard with = in place of |=
AddCardAssign(acc, p_idx, card) ==
    IF card = NoneValue
    THEN [acc EXCEPT !.exc = TypeErrorLen]
    ELSE IF Len(card) < 2 THEN acc
    ELSE LET rank_char == Upper(card[1])
             suit_char == Upper(card[2])
         IN  IF rank_char \in DOMAIN RankMap /\ suit_char \in DOMAIN SuitMap
             THEN [acc EXCEPT !.cards[p_idx][SuitMap[suit_char]] = RankMap[rank_char],
                              !.total_cards = @ + 1]
             ELSE acc

\* the body of "for card in cards"
AddCard(acc, p_idx, card) ==
    IF card = NoneValue
    THEN [acc EXCEPT !.exc = TypeErrorLen]
    ELSE IF Len(card) < 2 THEN acc
    ELSE LET rank_char == Upper(card[1])
             suit_char == Upper(card[2])
         IN  IF rank_char \in DOMAIN RankMap /\ suit_char \in DOMAIN SuitMap
             THEN LET bit == RankMap[rank_char]
                      suit_idx == SuitMap[suit_char]
                  IN  [acc EXCEPT !.cards[p_idx][suit_idx] = BitOr(@, bit),
                                  !.total_cards = @ + 1]
             ELSE acc

RECURSIVE FoldCards(_, _, _)
FoldCards(acc, p_idx, cards) ==
    IF cards = <<>> \/ acc.exc # NoExc THEN acc
    ELSE FoldCards(AddCard(acc, p_idx, Head(cards)), p_idx, Tail(cards))

\* the body of "for player, cards in hands_dict.items()"
AddHand(acc, item) ==
    IF item.player \notin DOMAIN HandMap THEN acc
    ELSE FoldCards(acc, HandMap[item.player], item.cards)

RECURSIVE FoldHands(_, _)
FoldHands(acc, items) ==
    IF items = <<>> \/ acc.exc # NoExc THEN acc
    ELSE FoldHands(AddHand(acc, Head(items)), Tail(items))

BuildDeal(hands) ==
    FoldHands([cards |-> ZeroCards, total_cards |-> 0, exc |-> NoExc], hands)

\* set bits over the 16 (seat, suit) masks
TotalPopCount(cards) ==
    SumSeq([i \in 1..16 |-> PopCount(cards[(i - 1) \div 4][(i - 1) % 4])])

SuitPopCount(cards, s) == SumSeq([i \in 1..4 |-> PopCount(cards[i - 1][s])])

----------------------------------------------------------------------------
(* BridgeSolver.get_vulnerability *)

vul_pattern == <<0, 1, 2, 3, 1, 2, 3, 0, 2, 3, 0, 1, 3, 0, 1, 2>>

\* get_vulnerability indexing by round % 16
get_vulnerability_from_zero(round) == vul_pattern[(round % 16) + 1]

\* list[i] of Python for -len(list) <= i < len(list): a negative i counts from the end
ListGet(list, i) == list[(IF i < 0 THEN i + Len(list) ELSE i) + 1]

\* vul_index taking the remainder before the shift: (round % 16) - 1
vul_index_late(round) == (round % 16) - 1

\* line 91: the index; % of Python and of TLA+ both give 0..15 for a modulus of 16
vul_index(round) == (round - 1) % 16

get_vulnerability(round) == ListGet(vul_pattern, vul_index(round))

VulnStr == <<"None", "NS", "EW", "Both">>

----------------------------------------------------------------------------
(* ctypes buffers and BridgeSolver._format_contract *)

\* c_char array .value: the bytes before the first NUL
RECURSIVE Value(_)
Value(buf) ==
    IF buf = <<>> \/ Head(buf) = 0 THEN <<>>
    ELSE <<Head(buf)>> \o Value(Tail(buf))

\* ASCII bytes the engine output is drawn from
CharOf == [b \in {32, 45, 48, 50, 52, 55, 58, 69, 78, 83, 84, 87, 88} |->
              CASE b = 32 -> " " [] b = 45 -> "-" [] b = 48 -> "0" [] b = 50 -> "2"
                [] b = 52 -> "4" [] b = 55 -> "7" [] b = 58 -> ":" [] b = 69 -> "E"
                [] b = 78 -> "N" [] b = 83 -> "S" [] b = 84 -> "T" [] b = 87 -> "W"
                [] b = 88 -> "X"]

\* bytes.decode('utf-8'): ASCII decodes to itself; 0xFF starts no UTF-8 sequence
DecodeUtf8(bytes) ==
    IF \E i \in 1..Len(bytes) : bytes[i] \notin DOMAIN CharOf
    THEN [exc |-> UnicodeError, text |-> <<>>]
    ELSE [exc |-> NoExc, text |-> [i \in 1..Len(bytes) |-> CharOf[bytes[i]]]]

\* str.split(sep): the pieces between the separators
RECURSIVE Split(_, _)
Split(s, sep) ==
    IF \A i \in 1..Len(s) : s[i] # sep THEN <<s>>
    ELSE LET k == CHOOSE i \in 1..Len(s) :
                     s[i] = sep /\ \A j \in 1..(i - 1) : s[j] # sep
         IN  <<SubSeq(s, 1, k - 1)>> \o Split(SubSeq(s, k + 1, Len(s)), sep)

\* StripPrefix as s.split(':', 1)[1]: everything after the first colon
StripPrefixMaxsplit(s) ==
    IF \E i \in 1..Len(s) : s[i] = ":"
    THEN LET k == CHOOSE i \in 1..Len(s) : s[i] = ":" /\ \A j \in 1..(i - 1) : s[j] # ":"
         IN  SubSeq(s, k + 1, Len(s))
    ELSE s

\* _format_contract on a str already decoded: lines 77-79
StripPrefix(s) ==
    IF \E i \in 1..Len(s) : s[i] = ":" THEN Split(s, ":")[2] ELSE s

format_contract(raw_bytes_array) ==
    LET d == DecodeUtf8(Value(raw_bytes_array))
    IN  IF d.exc # NoExc THEN d ELSE [exc |-> NoExc, text |-> StripPrefix(d.text)]

----------------------------------------------------------------------------
(* BridgeSolver.solve, the envelope *)

DefaultParResult ==
    [vulnerability |-> "Unknown", optimal_contract |-> <<"-">>, score |-> <<"0">>]

DefaultResult ==
    [status |-> "error", message |-> <<>>, dd_table |-> <<>>,
     par_result |-> DefaultParResult]

\* line 276
ExceptHandler(rd, exc) == [rd EXCEPT !.message = <<"Python Exception: ", exc.text>>]

\* lines 275-278: an exception raised in the try block reaches "except Exception"
Raise(rd, exc) ==
    IF Catches(exc)
    THEN [result_data |-> ExceptHandler(rd, exc), propagated |-> FALSE]
    ELSE [result_data |-> rd, propagated |-> TRUE]

\* InvalidCount formatting the expected count, not the counted one
InvalidCountExpected(rd, n) ==
    [rd EXCEPT !.message = <<"Invalid card count: ">> \o FormatInt(52)]

InvalidCount(rd, n) ==
    [rd EXCEPT !.message = <<"Invalid card count: ">> \o FormatInt(n)]

\* CalcError leaving the message as it was
CalcErrorSilent(rd, code) == rd

CalcError(rd, code) ==
    [rd EXCEPT !.message = <<"DDS CalcDDtable Error: ">> \o FormatInt(code)]

\* ParDecode without the else branch of line 250
ParDecodeSilent(rd, code, pres_out) ==
    IF code = 1
    THEN LET c == format_contract(pres_out.parContractsString[1])
             s == DecodeUtf8(Value(pres_out.parScore[1]))
         IN  IF c.exc # NoExc
             THEN [contract |-> <<"Decode Error: ", c.exc.text>>, score |-> <<"0">>,
                   message |-> rd.message]
             ELSE IF s.exc # NoExc
             THEN [contract |-> <<"Decode Error: ", s.exc.text>>, score |-> <<"0">>,
                   message |-> rd.message]
             ELSE [contract |-> c.text, score |-> s.text, message |-> rd.message]
    ELSE [contract |-> <<"-">>, score |-> <<"0">>, message |-> rd.message]

\* lines 237-250: contract, score and the message after Par returned
ParDecode(rd, code, pres_out) ==
    IF code = 1
    THEN LET c == format_contract(pres_out.parContractsString[1])
             s == DecodeUtf8(Value(pres_out.parScore[1]))
         IN  IF c.exc # NoExc
             THEN [contract |-> <<"Decode Error: ", c.exc.text>>, score |-> <<"0">>,
                   message |-> rd.message]
             ELSE IF s.exc # NoExc
             THEN [contract |-> <<"Decode Error: ", s.exc.text>>, score |-> <<"0">>,
                   message |-> rd.message]
             ELSE [contract |-> c.text, score |-> s.text, message |-> rd.message]
    ELSE [contract |-> <<"-">>, score |-> <<"0">>,
          message |-> <<"DDS Par Error: ">> \o FormatInt(code)]

suits_str == <<"Pik", "Kier", "Karo", "Trefl", "NT">>
display_order == <<4, 0, 1, 2, 3>>

\* StructuredDD with the seats in the column order of the console table of
\* line 152 (N, S, E, W): "E" gets column 2 and "S" column 1
StructuredDDColumns(t) ==
    [k \in 1..Len(display_order) |->
        LET s_idx == display_order[k]
        IN  [key |-> suits_str[s_idx + 1],
             val |-> [N |-> t[s_idx][0], E |-> t[s_idx][2],
                      S |-> t[s_idx][1], W |-> t[s_idx][3]]]]

\* lines 256-264
StructuredDD(t) ==
    [k \in 1..Len(display_order) |->
        LET s_idx == display_order[k]
        IN  [key |-> suits_str[s_idx + 1],
             val |-> [N |-> t[s_idx][0], E |-> t[s_idx][1],
                      S |-> t[s_idx][2], W |-> t[s_idx][3]]]]

\* the exception the inner try (lines 243-248) takes, if slot 0 does not decode
DecodeFault(code, pres_out) ==
    IF code # 1 THEN <<>>
    ELSE IF format_contract(pres_out.parContractsString[1]).exc # NoExc
    THEN <<[step |-> "decode", exc |-> format_contract(pres_out.parContractsString[1]).exc]>>
    ELSE IF DecodeUtf8(Value(pres_out.parScore[1])).exc # NoExc
    THEN <<[step |-> "decode", exc |-> DecodeUtf8(Value(pres_out.parScore[1])).exc]>>
    ELSE <<>>

\* Assemble without the try of line 243: a decoding error goes to line 275
AssembleNoInnerTry(rd, t, vuln_str, code, pres_out) ==
    IF DecodeFault(code, pres_out) # <<>>
    THEN ExceptHandler(rd, DecodeFault(code, pres_out)[1].exc)
    ELSE LET d == ParDecode(rd, code, pres_out)
         IN  [status |-> "ok", message |-> d.message, dd_table |-> StructuredDD(t),
              par_result |-> [vulnerability |-> vuln_str,
                              optimal_contract |-> d.contract, score |-> d.score]]

\* lines 237-273
Assemble(rd, t, vuln_str, code, pres_out) ==
    LET d == ParDecode(rd, code, pres_out)
    IN  [status |-> "ok", message |-> d.message, dd_table |-> StructuredDD(t),
         par_result |-> [vulnerability |-> vuln_str,
                         optimal_contract |-> d.contract, score |-> d.score]]

----------------------------------------------------------------------------
(* The inputs given to solve *)

DeckSize == 52

RankOrder == <<"A", "K", "Q", "J", "T", "9", "8", "7", "6", "5", "4", "3", "2">>
SeatKeys == <<"N", "E", "S", "W">>
SuitChars == <<"S", "H", "D", "C">>

\* main.py's CURRENT_HANDS: each seat holds one whole suit
CURRENT_HANDS ==
    [k \in 1..4 |->
        [player |-> SeatKeys[k],
         cards |-> [i \in 1..13 |-> <<RankOrder[i], SuitChars[k]>>]]]

\* a deal in which every seat holds cards of all four suits
MixedHands ==
    [k \in 1..4 |->
        [player |-> SeatKeys[k],
         cards |-> [i \in 1..13 |-> <<RankOrder[i], SuitChars[((i + k) % 4) + 1]>>]]]

BaseHands == {CURRENT_HANDS, MixedHands}

LowerToken(t) == [i \in 1..Len(t) |-> Lower(t[i])]

ReplaceCard(h, a, j, t) == [h EXCEPT ![a].cards[j] = t]
RemoveCard(h, a, j) ==
    [h EXCEPT ![a].cards = SubSeq(@, 1, j - 1) \o SubSeq(@, j + 1, Len(@))]
AppendCard(h, a, t) == [h EXCEPT ![a].cards = Append(@, t)]
RenameSeat(h, a, k) == [h EXCEPT ![a].player = k]
SwapCards(h, a, j) ==
    [h EXCEPT ![a].cards = [@ EXCEPT ![j] = h[a].cards[j + 1], ![j + 1] = h[a].cards[j]]]
SwapSeats(h, a) == [h EXCEPT ![a] = h[a + 1], ![a + 1] = h[a]]
Reverse(s) == [i \in 1..Len(s) |-> s[Len(s) + 1 - i]]

\* what may stand in place of card j of seat a: the same card in lower case or
\* with a trailing character, the seat's next card (as is, in lower case, with
\* a trailing character), a card of the next seat, and tokens that are skipped
\* or are no str
Replacements(h, a, j) ==
    {LowerToken(h[a].cards[j]),
     h[a].cards[j] \o <<"X">>,
     h[a].cards[j + 1],
     LowerToken(h[a].cards[j + 1]),
     h[a].cards[j + 1] \o <<"x">>,
     h[(a % 4) + 1].cards[j],
     <<"1", "S">>, <<"A", "X">>, <<"A">>, <<>>, NoneValue}

EditedHands(h) ==
    {ReplaceCard(h, a, j, t) : <<a, j, t>> \in
        {<<a, j, t>> \in (1..4) \X (1..MaxPos) \X
            UNION {Replacements(h, x[1], x[2]) : x \in (1..4) \X (1..MaxPos)} :
                t \in Replacements(h, a, j)}}
    \cup {RemoveCard(h, a, j) : <<a, j>> \in (1..4) \X (1..MaxPos)}
    \cup {AppendCard(h, a, h[a].cards[j]) : <<a, j>> \in (1..4) \X (1..MaxPos)}
    \cup {RenameSeat(h, a, k) : <<a, k>> \in (1..4) \X {"n", "X"}}
    \cup {SwapCards(h, a, j) : <<a, j>> \in (1..4) \X (1..MaxPos)}
    \cup {SwapSeats(h, a) : a \in 1..3}
    \cup {Reverse(h), <<>>}
    \cup {Append(h, [player |-> "X", cards |-> h[1].cards])}

HandsInputs == BaseHands \cup UNION {EditedHands(h) : h \in BaseHands}

RoundInputs == {IntRound(1), IntRound(4), NoneRound}

SolveInputs ==
    (HandsInputs \X RoundInputs)
    \cup ({CURRENT_HANDS} \X {IntRound(r) : r \in (-MaxRound)..MaxRound})

----------------------------------------------------------------------------
(* The engine: what CalcDDtable and Par may hand back *)

ZeroTable == [s \in 0..4 |-> [p \in 0..3 |-> 0]]

EngineCodes == {1, 0, 2, -14}

\* resTable[strain][seat]; no two cells of a table agree, and the values are
\* not confined to 0..13
TableInputs ==
    {[s \in 0..4 |-> [p \in 0..3 |-> 4 * s + p]],
     [s \in 0..4 |-> [p \in 0..3 |-> 13 - (4 * s + p)]]}

\* slot 0 of parContractsString: "NS:7NT", "7NT" with bytes after the NUL
\* that are not UTF-8, and bytes before the NUL that are not UTF-8
ContractBuffers ==
    {<<78, 83, 58, 55, 78, 84, 0>>, <<55, 78, 84, 0, 255, 58>>, <<255, 58, 55, 0>>}

\* slot 0 of parScore: "NS 2220", and bytes that are not UTF-8
ScoreBuffers == {<<78, 83, 32, 50, 50, 50, 48, 0>>, <<78, 255, 0>>}

ParResults ==
    {[parScore |-> <<sc, <<0>>>>, parContractsString |-> <<c, <<0>>>>] :
        <<sc, c>> \in ScoreBuffers \X ContractBuffers}

ZeroParResults == [parScore |-> <<<<0>>, <<0>>>>, parContractsString |-> <<<<0>>, <<0>>>>]

----------------------------------------------------------------------------
(* BridgeSolver.solve as steps: entry to validation, CalcDDtable, Par, return *)

\* no solve is running: its arguments and locals do not exist
SolverIdle ==
    /\ pc = "idle"
    /\ hands_dict = <<>>
    /\ round_num = IntRound(1)
    /\ deal = ZeroCards
    /\ total_cards = 0
    /\ table = ZeroTable
    /\ res_dd = <<>>
    /\ res_par = <<>>
    /\ pres = ZeroParResults
    /\ result_data = DefaultResult
    /\ calls = <<>>
    /\ raised = <<>>
    /\ propagated = FALSE
    /\ caller = "direct"

\* solve has returned: its arguments and locals are gone
ResetSolver ==
    /\ pc' = "idle"
    /\ hands_dict' = <<>>
    /\ round_num' = IntRound(1)
    /\ deal' = ZeroCards
    /\ total_cards' = 0
    /\ table' = ZeroTable
    /\ res_dd' = <<>>
    /\ res_par' = <<>>
    /\ pres' = ZeroParResults
    /\ result_data' = DefaultResult
    /\ calls' = <<>>
    /\ raised' = <<>>
    /\ propagated' = FALSE
    /\ caller' = "direct"

\* lines 184-219
SolveBegin(hands, round, who) ==
    LET b == BuildDeal(hands)
    IN  /\ pc = "idle"
        /\ hands_dict' = hands
        /\ round_num' = round
        /\ caller' = who
        /\ deal' = b.cards
        /\ total_cards' = b.total_cards
        /\ table' = ZeroTable
        /\ res_dd' = <<>>
        /\ res_par' = <<>>
        /\ pres' = ZeroParResults
        /\ calls' = <<>>
        /\ IF b.exc # NoExc
           THEN /\ raised' = <<[step |-> "build", exc |-> b.exc]>>
                /\ result_data' = Raise(DefaultResult, b.exc).result_data
                /\ propagated' = Raise(DefaultResult, b.exc).propagated
                /\ pc' = "returned"
           ELSE IF b.total_cards # DeckSize
           THEN /\ raised' = <<>>
                /\ result_data' = InvalidCount(DefaultResult, b.total_cards)
                /\ propagated' = FALSE
                /\ pc' = "returned"
           ELSE /\ raised' = <<>>
                /\ result_data' = DefaultResult
                /\ propagated' = FALSE
                /\ pc' = "CalcDDtable"

\* a direct call of solve
Solve(hands, round) ==
    /\ SolveBegin(hands, round, "direct")
    /\ UNCHANGED web_vars

\* StageOneFailed taking only the negative codes for failures
StageOneFailedNegative(code) == code < 0

\* line 225
StageOneFailed(code) == code # 1

\* lines 222-233: the engine returns code and has written t
CalcDDtableReturns(code, t) ==
    /\ pc = "CalcDDtable"
    /\ calls' = Append(calls, [fn |-> "CalcDDtable", args |-> <<deal>>])
    /\ table' = t
    /\ res_dd' = <<code>>
    /\ IF StageOneFailed(code)
       THEN /\ result_data' = CalcError(result_data, code)
            /\ UNCHANGED <<raised, propagated>>
            /\ pc' = "returned"
       ELSE IF round_num.type # "int"
       THEN /\ raised' = Append(raised, [step |-> "get_vulnerability", exc |-> TypeErrorSub])
            /\ result_data' = Raise(result_data, TypeErrorSub).result_data
            /\ propagated' = Raise(result_data, TypeErrorSub).propagated
            /\ pc' = "returned"
       ELSE /\ UNCHANGED <<result_data, raised, propagated>>
            /\ pc' = "Par"
    /\ UNCHANGED <<hands_dict, round_num, deal, total_cards, res_par, pres, caller>>
    /\ UNCHANGED web_vars

\* line 223 raises
CalcDDtableRaises ==
    /\ pc = "CalcDDtable"
    /\ calls' = Append(calls, [fn |-> "CalcDDtable", args |-> <<deal>>])
    /\ raised' = Append(raised, [step |-> "CalcDDtable", exc |-> OSErrorCall])
    /\ result_data' = Raise(result_data, OSErrorCall).result_data
    /\ propagated' = Raise(result_data, OSErrorCall).propagated
    /\ pc' = "returned"
    /\ UNCHANGED <<hands_dict, round_num, deal, total_cards, table, res_dd, res_par, pres,
                   caller>>
    /\ UNCHANGED web_vars

\* lines 235-273: the engine returns code and has written pres_out into pres
ParReturns(code, pres_out) ==
    LET vul_val == get_vulnerability(round_num.val)
        vuln_str == VulnStr[vul_val + 1]
    IN  /\ pc = "Par"
        /\ calls' = Append(calls, [fn |-> "Par", args |-> <<table, vul_val>>])
        /\ res_par' = <<code>>
        /\ pres' = pres_out
        /\ raised' = raised \o DecodeFault(code, pres_out)
        /\ result_data' = Assemble(result_data, table, vuln_str, code, pres_out)
        /\ pc' = "returned"
        /\ UNCHANGED <<hands_dict, round_num, deal, total_cards, table, res_dd,
                       propagated, caller>>
        /\ UNCHANGED web_vars

\* line 235 raises
ParRaises ==
    /\ pc = "Par"
    /\ calls' = Append(calls, [fn |-> "Par",
                               args |-> <<table, get_vulnerability(round_num.val)>>])
    /\ raised' = Append(raised, [step |-> "Par", exc |-> OSErrorCall])
    /\ result_data' = Raise(result_data, OSErrorCall).result_data
    /\ propagated' = Raise(result_data, OSErrorCall).propagated
    /\ pc' = "returned"
    /\ UNCHANGED <<hands_dict, round_num, deal, total_cards, table, res_dd, res_par, pres,
                   caller>>
    /\ UNCHANGED web_vars

\* line 278 of a direct call: the envelope goes to the caller, the locals are gone
SolveReturn ==
    /\ pc = "returned"
    /\ caller = "direct"
    /\ ResetSolver
    /\ UNCHANGED web_vars

----------------------------------------------------------------------------
(* BridgeSolver.solve_debug_console as steps: entry to the warning, CalcDDtable *)

\* what an instance of BridgeSolver has: the attributes __init__ sets and the
\* methods of the class
BridgeSolverAttributes ==
    {"lib", "SuitMap", "HandMap", "RankMap", "_format_contract", "get_vulnerability",
     "solve_debug_console", "solve"}

AttributeErrorOf(name) ==
    Exc("AttributeError", "'BridgeSolver' object has no attribute '" \o name \o "'")

\* line 123
ConsoleWarning(n) ==
    <<"WARNING: Input contains ">> \o FormatInt(n)
        \o <<" cards instead of 52! Results may be invalid.">>

\* {v:2}: the number, right-aligned in two columns at least
Format2(v) == IF Len(FormatInt(v)) < 2 THEN <<" ">> \o FormatInt(v) ELSE FormatInt(v)

\* {row_name:<8}: the name, then spaces up to eight columns
Format8(row_name) == <<row_name>> \o [i \in 1..(8 - Len(row_name)) |-> " "]

\* lines 134-155: the table as printed, the columns in the order N, S, E, W
ConsoleTable(t) ==
    <<  <<"--- Double Dummy Analysis ---">>,
        <<"-------------------------------------------------">>,
        <<"|  Strain  | North | South |  East |  West  |">>,
        <<"|----------+-------+-------+-------+--------|">>  >>
    \o [k \in 1..Len(display_order) |->
          LET s_idx == display_order[k]
              row_name == IF s_idx < 5 THEN suits_str[s_idx + 1] ELSE "?"
              val_n == t[s_idx][0]
              val_e == t[s_idx][1]
              val_s == t[s_idx][2]
              val_w == t[s_idx][3]
          IN  <<"| ">> \o Format8(row_name) \o <<" |   ">> \o Format2(val_n)
                \o <<"  |   ">> \o Format2(val_s) \o <<"  |   ">> \o Format2(val_e)
                \o <<"  |   ">> \o Format2(val_w) \o <<"  |">>]
    \o <<  <<"-------------------------------------------------">>  >>

\* lines 98-123: the loop is that of solve, the count is only warned about and
\* nothing catches an exception
solve_debug_console(hands, round) ==
    LET b == BuildDeal(hands)
    IN  /\ pc = "idle"
        /\ hands_dict' = hands
        /\ round_num' = round
        /\ caller' = "console"
        /\ deal' = b.cards
        /\ total_cards' = b.total_cards
        /\ table' = ZeroTable
        /\ res_dd' = <<>>
        /\ res_par' = <<>>
        /\ pres' = ZeroParResults
        /\ calls' = <<>>
        /\ result_data' = DefaultResult
        /\ IF b.exc # NoExc
           THEN /\ raised' = <<[step |-> "build", exc |-> b.exc]>>
                /\ propagated' = TRUE
                /\ stdout' = <<>>
                /\ pc' = "returned"
           ELSE /\ raised' = <<>>
                /\ propagated' = FALSE
                /\ stdout' = IF b.total_cards # DeckSize
                             THEN <<ConsoleWarning(b.total_cards)>> ELSE <<>>
                /\ pc' = "ConsoleCalcDDtable"
        /\ UNCHANGED <<GLOBAL_CONFIG, HISTORY_LOG, bid_contract, ok_results, response,
                       lobby_vars>>

\* lines 126-160: the engine returns code and has written t; with 1 the table
\* is printed and line 159 looks up self.vulnerability
ConsoleCalcDDtableReturns(code, t) ==
    /\ pc = "ConsoleCalcDDtable"
    /\ calls' = Append(calls, [fn |-> "CalcDDtable", args |-> <<deal>>])
    /\ table' = t
    /\ res_dd' = <<code>>
    /\ IF code # 1
       THEN /\ stdout' = Append(stdout, <<"DDS Calculation Error, code: ">> \o FormatInt(code))
            /\ UNCHANGED <<raised, propagated>>
            /\ pc' = "returned"
       ELSE /\ stdout' = stdout \o ConsoleTable(t)
            /\ IF "vulnerability" \in BridgeSolverAttributes
               THEN /\ UNCHANGED <<raised, propagated>>
                    /\ pc' = "ConsolePar"
               ELSE /\ raised' = Append(raised, [step |-> "vulnerability",
                                                 exc |-> AttributeErrorOf("vulnerability")])
                    /\ propagated' = TRUE
                    /\ pc' = "returned"
    /\ UNCHANGED <<hands_dict, round_num, deal, total_cards, res_par, pres, result_data, caller>>
    /\ UNCHANGED <<GLOBAL_CONFIG, HISTORY_LOG, bid_contract, ok_results, response, lobby_vars>>

\* line 127 raises
ConsoleCalcDDtableRaises ==
    /\ pc = "ConsoleCalcDDtable"
    /\ calls' = Append(calls, [fn |-> "CalcDDtable", args |-> <<deal>>])
    /\ raised' = Append(raised, [step |-> "CalcDDtable", exc |-> OSErrorCall])
    /\ propagated' = TRUE
    /\ pc' = "returned"
    /\ UNCHANGED <<hands_dict, round_num, deal, total_cards, table, res_dd, res_par, pres,
                   result_data, caller>>
    /\ UNCHANGED web_vars

\* the call is over: it returned None or its exception went to the caller
ConsoleReturn ==
    /\ pc = "returned"
    /\ caller = "console"
    /\ ResetSolver
    /\ UNCHANGED web_vars

----------------------------------------------------------------------------
(* main.py: the requests *)

BidInputs == {<<"n", "o", "n", "e">>, <<"3", "N", "T">>}
TimeInputs == {"12:00:00"}
WebRounds == {-1, 0}

NoData == [x \in {} |-> 0]

\* the JSON bodies given to set_round and to edit_history
RoundData == {NoData} \cup {[round |-> r] : r \in WebRounds}
EditData ==
    RoundData
    \cup {[bid_contract |-> b] : b \in BidInputs}
    \cup {[round |-> r, bid_contract |-> b] : <<r, b>> \in WebRounds \X BidInputs}

\* the ids of the entries there may be, and one more
IdInputs == {FormatInt(n) : n \in 1..(MaxHistory + 1)}

\* what the engine hands back to the requests
WebTables == {[s \in 0..4 |-> [p \in 0..3 |-> 4 * s + p]]}
WebParCodes == {1, -14}
WebParResults ==
    {[parScore |-> <<<<78, 83, 32, 50, 50, 50, 48, 0>>, <<0>>>>,
      parContractsString |-> <<<<78, 83, 58, 55, 78, 84, 0>>, <<0>>>>]}

\* jsonify(body) and jsonify(body), 404: the code and the body's "status"
Respond(code, status) == [code |-> code, status |-> status]

\* line 198: the body also carries the entry; its id is kept
RespondEntry(code, status, id) == [code |-> code, status |-> status, entry |-> id]

\* lines 152-159
solve_api_call(bid) ==
    /\ Len(HISTORY_LOG) < MaxHistory
    /\ SolveBegin(CURRENT_HANDS, IntRound(GLOBAL_CONFIG), "solve_api")
    /\ bid_contract' = bid
    /\ UNCHANGED <<GLOBAL_CONFIG, HISTORY_LOG, ok_results, response, lobby_vars, stdout>>

\* HistoryEntry reading optimal_contract and score from the envelope itself, where
\* they are not: the defaults "N/A" are stored
HistoryEntryFlat(result, current_round, bid, now) ==
    [id |-> FormatInt(Len(HISTORY_LOG) + 1),
     time |-> now,
     round |-> current_round,
     contract |-> <<"N/A">>,
     score |-> <<"N/A">>,
     bid_contract |-> bid]

\* lines 162-171: the entry appended for an envelope with status "ok". The id,
\* str(uuid.uuid4()), is an id no entry has: entries are never removed, so the
\* number of the entry's position is one
HistoryEntry(result, current_round, bid, now) ==
    [id |-> FormatInt(Len(HISTORY_LOG) + 1),
     time |-> now,
     round |-> current_round,
     contract |-> result.par_result.optimal_contract,
     score |-> result.par_result.score,
     bid_contract |-> bid]

\* Recorded without the test of line 162
RecordedAlways(log, result, entry) == Append(log, entry)

\* line 162 and line 171
Recorded(log, result, entry) ==
    IF result.status = "ok" THEN Append(log, entry) ELSE log

\* lines 162-173
solve_api_return(now) ==
    /\ pc = "returned"
    /\ caller = "solve_api"
    /\ HISTORY_LOG' = Recorded(HISTORY_LOG, result_data,
                               HistoryEntry(result_data, round_num.val, bid_contract, now))
    /\ ok_results' = IF result_data.status = "ok"
                     THEN Append(ok_results,
                                 [optimal_contract |-> result_data.par_result.optimal_contract,
                                  score |-> result_data.par_result.score])
                     ELSE ok_results
    /\ response' = Respond(200, result_data.status)
    /\ ResetSolver
    /\ bid_contract' = <<>>
    /\ UNCHANGED <<GLOBAL_CONFIG, lobby_vars, stdout>>

\* lines 119-123; data is {} or {"round": r}
set_round(data) ==
    /\ pc = "idle"
    /\ GLOBAL_CONFIG' = IF "round" \in DOMAIN data THEN data.round ELSE GLOBAL_CONFIG
    /\ response' = Respond(200, "ok")
    /\ UNCHANGED solver_vars
    /\ UNCHANGED <<HISTORY_LOG, bid_contract, ok_results, lobby_vars, stdout>>

\* EditEntry storing the new bid_contract under "contract"
EditEntryContract(entry, data) ==
    [entry EXCEPT
        !.round = IF "round" \in DOMAIN data THEN data.round ELSE @,
        !.contract = IF "bid_contract" \in DOMAIN data THEN data.bid_contract ELSE @]

\* lines 194-197: what the matching entry becomes
EditEntry(entry, data) ==
    [entry EXCEPT
        !.round = IF "round" \in DOMAIN data THEN data.round ELSE @,
        !.bid_contract = IF "bid_contract" \in DOMAIN data THEN data.bid_contract ELSE @]

\* lines 188-200
edit_history(entry_id, data) ==
    /\ pc = "idle"
    /\ IF \E i \in 1..Len(HISTORY_LOG) : HISTORY_LOG[i].id = entry_id
       THEN LET i == CHOOSE k \in 1..Len(HISTORY_LOG) :
                         /\ HISTORY_LOG[k].id = entry_id
                         /\ \A j \in 1..(k - 1) : HISTORY_LOG[j].id # entry_id
            IN  /\ HISTORY_LOG' = [HISTORY_LOG EXCEPT ![i] = EditEntry(@, data)]
                /\ response' = RespondEntry(200, "ok", entry_id)
       ELSE /\ HISTORY_LOG' = HISTORY_LOG
            /\ response' = Respond(404, "error")
    /\ UNCHANGED solver_vars
    /\ UNCHANGED <<GLOBAL_CONFIG, bid_contract, ok_results, lobby_vars, stdout>>

----------------------------------------------------------------------------
(* main.py: the lobby *)

None == "None"
DEV_BOT == "DEV_BOT"

\* the keys of TABLE_STATE in the order of line 13, which is the order of
\* TABLE_STATE.items()
TableSeats == <<"N", "S", "E", "W">>

\* line 13
EmptyTable == [s \in {"N", "S", "E", "W"} |-> None]

\* request.remote_addr of the users
Users == {"10.0.0.1", "10.0.0.2"}

\* the <seat> of the URL: the four seats and a name that is no seat
SeatInputs == {"N", "S", "E", "W", "X"}

\* IsFree letting every seat pass for a free one
IsFreeAlways(current) == TRUE

\* line 110
IsFree(current) == current = None

\* lines 111-112 run to the end: every seat user_ip holds is freed
RECURSIVE Vacate(_, _, _)
Vacate(ts, user_ip, k) ==
    IF k > Len(TableSeats) THEN ts
    ELSE LET s == TableSeats[k]
             occ == ts[s]
         IN  Vacate(IF occ = user_ip THEN [ts EXCEPT ![s] = None] ELSE ts, user_ip, k + 1)

\* ToggleSeat without the loop of lines 111-112
ToggleSeatKeepOld(ts, user_ip, seat) ==
    IF seat \notin DOMAIN ts THEN [table |-> ts, status |-> "error"]
    ELSE LET current == ts[seat]
         IN  IF current = user_ip
             THEN [table |-> [ts EXCEPT ![seat] = None], status |-> "ok"]
             ELSE IF IsFree(current)
             THEN [table |-> [ts EXCEPT ![seat] = user_ip], status |-> "ok"]
             ELSE [table |-> ts, status |-> "busy"]

\* lines 101-116 run without interruption: the table after, and the status answered
ToggleSeat(ts, user_ip, seat) ==
    IF seat \notin DOMAIN ts THEN [table |-> ts, status |-> "error"]
    ELSE LET current == ts[seat]
         IN  IF current = user_ip
             THEN [table |-> [ts EXCEPT ![seat] = None], status |-> "ok"]
             ELSE IF IsFree(current)
             THEN [table |-> [Vacate(ts, user_ip, 1) EXCEPT ![seat] = user_ip],
                   status |-> "ok"]
             ELSE [table |-> ts, status |-> "busy"]

\* a user without a request in progress, and with one at a line of toggle_seat
NoRequest == [pc |-> "idle", seat |-> None, current |-> None, k |-> 0, status |-> ""]
NoRequests == [u \in Users |-> NoRequest]

\* the position after item k of the loop of line 111
AfterItem(k) ==
    IF k < Len(TableSeats) THEN [pc |-> "line111", k |-> k + 1]
    ELSE [pc |-> "line113", k |-> 0]

\* lines 101-102: the request arrives; TABLE_STATE has the same keys at all times
toggle_seat_begin(user_ip, seat) ==
    /\ requests[user_ip].pc = "idle"
    /\ requests' = [requests EXCEPT ![user_ip] =
          IF seat \notin DOMAIN TABLE_STATE
          THEN [NoRequest EXCEPT !.pc = "done", !.seat = seat, !.status = "error"]
          ELSE [NoRequest EXCEPT !.pc = "line104", !.seat = seat]]
    /\ UNCHANGED TABLE_STATE
    /\ UNCHANGED solver_vars
    /\ UNCHANGED <<GLOBAL_CONFIG, HISTORY_LOG, bid_contract, ok_results, response, stdout>>

\* line 104 reads TABLE_STATE[seat]; lines 106, 110 and 116 test the local
toggle_seat_read(user_ip) ==
    LET r == requests[user_ip]
        current == TABLE_STATE[r.seat]
    IN  /\ r.pc = "line104"
        /\ requests' = [requests EXCEPT ![user_ip] =
              IF current = user_ip
              THEN [r EXCEPT !.current = current, !.pc = "line107"]
              ELSE IF IsFree(current)
              THEN [r EXCEPT !.current = current, !.pc = "line111", !.k = 1]
              ELSE [r EXCEPT !.current = current, !.pc = "done", !.status = "busy"]]
        /\ UNCHANGED TABLE_STATE
        /\ UNCHANGED solver_vars
        /\ UNCHANGED <<GLOBAL_CONFIG, HISTORY_LOG, bid_contract, ok_results, response, stdout>>

\* lines 107-108 write None to the seat
toggle_seat_free(user_ip) ==
    LET r == requests[user_ip]
    IN  /\ r.pc = "line107"
        /\ TABLE_STATE' = [TABLE_STATE EXCEPT ![r.seat] = None]
        /\ requests' = [requests EXCEPT ![user_ip] = [r EXCEPT !.pc = "done", !.status = "ok"]]
        /\ UNCHANGED solver_vars
        /\ UNCHANGED <<GLOBAL_CONFIG, HISTORY_LOG, bid_contract, ok_results, response, stdout>>

\* lines 111-112: the loop reads item k and tests it
toggle_seat_scan(user_ip) ==
    LET r == requests[user_ip]
        occ == TABLE_STATE[TableSeats[r.k]]
    IN  /\ r.pc = "line111"
        /\ requests' = [requests EXCEPT ![user_ip] =
              IF occ = user_ip THEN [r EXCEPT !.pc = "line112"]
              ELSE [r EXCEPT !.pc = AfterItem(r.k).pc, !.k = AfterItem(r.k).k]]
        /\ UNCHANGED TABLE_STATE
        /\ UNCHANGED solver_vars
        /\ UNCHANGED <<GLOBAL_CONFIG, HISTORY_LOG, bid_contract, ok_results, response, stdout>>

\* line 112 writes None to the seat of item k
toggle_seat_vacate(user_ip) ==
    LET r == requests[user_ip]
    IN  /\ r.pc = "line112"
        /\ TABLE_STATE' = [TABLE_STATE EXCEPT ![TableSeats[r.k]] = None]
        /\ requests' = [requests EXCEPT ![user_ip] =
              [r EXCEPT !.pc = AfterItem(r.k).pc, !.k = AfterItem(r.k).k]]
        /\ UNCHANGED solver_vars
        /\ UNCHANGED <<GLOBAL_CONFIG, HISTORY_LOG, bid_contract, ok_results, response, stdout>>

\* lines 113-114 write user_ip to the seat
toggle_seat_take(user_ip) ==
    LET r == requests[user_ip]
    IN  /\ r.pc = "line113"
        /\ TABLE_STATE' = [TABLE_STATE EXCEPT ![r.seat] = user_ip]
        /\ requests' = [requests EXCEPT ![user_ip] = [r EXCEPT !.pc = "done", !.status = "ok"]]
        /\ UNCHANGED solver_vars
        /\ UNCHANGED <<GLOBAL_CONFIG, HISTORY_LOG, bid_contract, ok_results, response, stdout>>

\* no solve and no toggle_seat is running
Quiet == pc = "idle" /\ \A u \in Users : requests[u].pc = "idle"

\* toggle_seat served without interruption
toggle_seat(user_ip, seat) ==
    /\ Quiet
    /\ TABLE_STATE' = ToggleSeat(TABLE_STATE, user_ip, seat).table
    /\ response' = Respond(200, ToggleSeat(TABLE_STATE, user_ip, seat).status)
    /\ UNCHANGED solver_vars
    /\ UNCHANGED <<GLOBAL_CONFIG, HISTORY_LOG, bid_contract, ok_results, requests, stdout>>

\* lines 129-132
dev_fill_seats ==
    /\ Quiet
    /\ TABLE_STATE' = [seat \in DOMAIN TABLE_STATE |->
                          IF TABLE_STATE[seat] = None THEN DEV_BOT ELSE TABLE_STATE[seat]]
    /\ response' = Respond(200, "ok")
    /\ UNCHANGED solver_vars
    /\ UNCHANGED <<GLOBAL_CONFIG, HISTORY_LOG, bid_contract, ok_results, requests, stdout>>

\* lines 136-138
dev_clear_seats ==
    /\ Quiet
    /\ TABLE_STATE' = [seat \in DOMAIN TABLE_STATE |-> None]
    /\ response' = Respond(200, "ok")
    /\ UNCHANGED solver_vars
    /\ UNCHANGED <<GLOBAL_CONFIG, HISTORY_LOG, bid_contract, ok_results, requests, stdout>>

----------------------------------------------------------------------------
(* Specifications *)

Init ==
    /\ SolverIdle
    /\ GLOBAL_CONFIG = 1
    /\ HISTORY_LOG = <<>>
    /\ bid_contract = <<>>
    /\ ok_results = <<>>
    /\ response = Respond(200, "ok")
    /\ TABLE_STATE = EmptyTable
    /\ requests = NoRequests
    /\ stdout = <<>>

\* the engine's steps, with the codes, tables and par results it may hand back
EngineSteps(dd_codes, tables, par_codes, par_results) ==
    \/ \E code \in dd_codes, t \in tables : CalcDDtableReturns(code, t)
    \/ CalcDDtableRaises
    \/ \E code \in par_codes \ {1} : ParReturns(code, ZeroParResults)
    \/ \E pres_out \in par_results : ParReturns(1, pres_out)
    \/ ParRaises

\* the web application: requests are served one after the other
Next ==
    \/ \E bid \in BidInputs : solve_api_call(bid)
    \/ EngineSteps(EngineCodes, WebTables, WebParCodes, WebParResults)
    \/ \E now \in TimeInputs : solve_api_return(now)
    \/ \E data \in RoundData : set_round(data)
    \/ \E id \in IdInputs, data \in EditData : edit_history(id, data)

Spec == Init /\ [][Next]_vars

\* the solver called directly on every enumerated input
NextSolve ==
    \/ \E in \in SolveInputs : Solve(in[1], in[2])
    \/ EngineSteps(EngineCodes, TableInputs, EngineCodes, ParResults)
    \/ SolveReturn

SpecSolve == Init /\ [][NextSolve]_vars

\* slot 0 of parContractsString as any bytes of "7", ":", "N" and NUL, with a
\* score that decodes
ContractBytes == {0, 55, 58, 78}

ContractParResults ==
    {[parScore |-> <<<<78, 83, 32, 50, 50, 50, 48, 0>>, <<0>>>>,
      parContractsString |-> <<b, <<0>>>>] :
        b \in UNION {[1..k -> ContractBytes] : k \in 0..MaxLen}}

\* _format_contract on every contract buffer: one deal, one round, both engine
\* stages returning 1
NextContract ==
    \/ Solve(CURRENT_HANDS, IntRound(1))
    \/ \E t \in WebTables : CalcDDtableReturns(1, t)
    \/ \E pres_out \in ContractParResults : ParReturns(1, pres_out)
    \/ SolveReturn

SpecContract == Init /\ [][NextContract]_vars

\* the lobby, each request served without interruption
NextLobby ==
    \/ \E user_ip \in Users, seat \in SeatInputs : toggle_seat(user_ip, seat)
    \/ dev_fill_seats
    \/ dev_clear_seats

SpecLobby == Init /\ [][NextLobby]_vars

\* the seat tables the lobby can be in: a user holds one seat at most
LobbyTables ==
    {ts \in [{"N", "S", "E", "W"} -> {None, DEV_BOT} \cup Users] :
        \A u \in Users : Cardinality({s \in DOMAIN ts : ts[s] = u}) <= 1}

InitRace ==
    /\ SolverIdle
    /\ GLOBAL_CONFIG = 1
    /\ HISTORY_LOG = <<>>
    /\ bid_contract = <<>>
    /\ ok_results = <<>>
    /\ response = Respond(200, "ok")
    /\ TABLE_STATE \in LobbyTables
    /\ requests = NoRequests
    /\ stdout = <<>>

\* one toggle_seat request of each user, on any table of the lobby, the two
\* interleaved read by read and write by write
NextRace ==
    \/ \E user_ip \in Users, seat \in SeatInputs : toggle_seat_begin(user_ip, seat)
    \/ \E user_ip \in Users : toggle_seat_read(user_ip)
    \/ \E user_ip \in Users : toggle_seat_free(user_ip)
    \/ \E user_ip \in Users : toggle_seat_scan(user_ip)
    \/ \E user_ip \in Users : toggle_seat_vacate(user_ip)
    \/ \E user_ip \in Users : toggle_seat_take(user_ip)

SpecRace == InitRace /\ [][NextRace]_vars

\* the deals and rounds given to solve_debug_console: 52 cards, 51, 53, and a
\* list with a None
ConsoleInputs ==
    {CURRENT_HANDS, MixedHands, RemoveCard(CURRENT_HANDS, 1, 1),
     AppendCard(MixedHands, 2, <<"2", "c">>), ReplaceCard(CURRENT_HANDS, 3, 2, NoneValue)}
    \X {IntRound(1), IntRound(4), IntRound(0), IntRound(17), NoneRound}

\* the console solver called directly
NextConsole ==
    \/ \E in \in ConsoleInputs : solve_debug_console(in[1], in[2])
    \/ \E code \in EngineCodes, t \in TableInputs : ConsoleCalcDDtableReturns(code, t)
    \/ ConsoleCalcDDtableRaises
    \/ ConsoleReturn

SpecConsole == Init /\ [][NextConsole]_vars

----------------------------------------------------------------------------
(* What the claims speak of *)

Returned == pc = "returned"

\* every card of every list is a str, so the loops of lines 202-215 finish
WellTyped(h) == \A a \in 1..Len(h) : \A j \in 1..Len(h[a].cards) : h[a].cards[j] # NoneValue

\* a token the codec accepts, stated on the token itself
Accepted(t) ==
    /\ t # NoneValue
    /\ Len(t) >= 2
    /\ Upper(t[1]) \in {"2", "3", "4", "5", "6", "7", "8", "9", "T", "J", "Q", "K", "A"}
    /\ Upper(t[2]) \in {"S", "H", "D", "C"}

\* the number N of accepted tokens under the four seat keys
AcceptedCount(h) ==
    Cardinality({x \in UNION {{<<a, j>> : j \in 1..Len(h[a].cards)} : a \in 1..Len(h)} :
                    /\ h[x[1]].player \in {"N", "E", "S", "W"}
                    /\ Accepted(h[x[1]].cards[x[2]])})

CalledFns == {calls[i].fn : i \in 1..Len(calls)}

Message == result_data.message
Status == result_data.status
ParResult == result_data.par_result

\* the five strains, each with the four seats
Populated(dd) ==
    /\ Len(dd) = 5
    /\ {dd[i].key : i \in 1..Len(dd)} = {"NT", "Pik", "Kier", "Karo", "Trefl"}
    /\ \A i \in 1..Len(dd) :
          /\ DOMAIN dd[i].val = {"N", "E", "S", "W"}
          /\ \A seat \in DOMAIN dd[i].val : dd[i].val[seat] \in Int

----------------------------------------------------------------------------
(* C1 *)

\* C1: when the build finishes with a number N of accepted tokens other than
\* 52, solve goes from validation straight to its return: the envelope has
\* status "error", its message contains N, and no engine entry point was
\* invoked.
C1_InvalidCountRejected ==
    (pc # "idle" /\ WellTyped(hands_dict) /\ AcceptedCount(hands_dict) # 52) =>
        /\ Returned
        /\ Status = "error"
        /\ Contains(Message, FormatInt(AcceptedCount(hands_dict)))
        /\ calls = <<>>

C1_Witness ==
    /\ Returned
    /\ WellTyped(hands_dict)
    /\ AcceptedCount(hands_dict) = 51
    /\ Message = <<"Invalid card count: ", "5", "1">>
    /\ calls = <<>>

----------------------------------------------------------------------------
(* C2 *)

\* C2: when CalcDDtable returned a code other than 1, the envelope has
\* status "error", an empty dd_table, the default par_result and a message
\* carrying the code, Par was not invoked, and the step that follows
\* (solve_api's return) leaves HISTORY_LOG as it was.
C2_TrickStageFatal ==
    [][(Returned /\ res_dd # <<>> /\ res_dd # <<1>>) =>
          /\ Status = "error"
          /\ result_data.dd_table = <<>>
          /\ ParResult = [vulnerability |-> "Unknown", optimal_contract |-> <<"-">>,
                          score |-> <<"0">>]
          /\ Contains(Message, FormatInt(res_dd[1]))
          /\ "Par" \notin CalledFns
          /\ HISTORY_LOG' = HISTORY_LOG]_vars

C2_Witness ==
    /\ Returned
    /\ caller = "solve_api"
    /\ res_dd = <<-14>>
    /\ Message = <<"DDS CalcDDtable Error: ", "-", "1", "4">>
    /\ Len(HISTORY_LOG) = 1

----------------------------------------------------------------------------
(* C3 *)

\* C3: when CalcDDtable returned 1 and Par returned a code other than 1, the
\* envelope has status "ok", all five strains of dd_table, the vulnerability
\* of the round, optimal_contract "-" and score "0", and a message that
\* contains Par's code.
C3_ParFailureNotFatal ==
    (Returned /\ res_dd = <<1>> /\ res_par # <<>> /\ res_par # <<1>>) =>
        /\ Status = "ok"
        /\ Populated(result_data.dd_table)
        /\ ParResult.optimal_contract = <<"-">>
        /\ ParResult.score = <<"0">>
        /\ ParResult.vulnerability \in {"None", "NS", "EW", "Both"}
        /\ Contains(Message, FormatInt(res_par[1]))

C3_Witness ==
    /\ Returned
    /\ res_dd = <<1>>
    /\ res_par = <<-14>>
    /\ Status = "ok"
    /\ Message = <<"DDS Par Error: ", "-", "1", "4">>

----------------------------------------------------------------------------
(* C4 *)

\* C4, as claimed: no exception leaves solve, and whenever one was raised at
\* any step (building the deal, an engine call, the vulnerability lookup,
\* decoding) the envelope has status "error" and a message describing it.
C4_EveryFaultIsErrorEnvelope ==
    /\ ~propagated
    /\ (Returned /\ raised # <<>>) =>
          /\ Status = "error"
          /\ Message = <<"Python Exception: ", raised[1].exc.text>>

\* C4, amended: no exception leaves solve. One raised while building the
\* deal, in an engine call or in the vulnerability lookup gives an envelope
\* with status "error" and the message "Python Exception: <description>".
\* One raised while decoding Par's buffers is taken by the inner handler: the
\* envelope has status "ok", keeps the trick table, has score "0" and carries
\* the description in optimal_contract, after "Decode Error: ".
C4_FaultsNeverPropagate ==
    /\ ~propagated
    /\ (Returned /\ raised # <<>> /\ raised[1].step # "decode") =>
          /\ Status = "error"
          /\ Message = <<"Python Exception: ", raised[1].exc.text>>
    /\ (Returned /\ raised # <<>> /\ raised[1].step = "decode") =>
          /\ Status = "ok"
          /\ Populated(result_data.dd_table)
          /\ ParResult.optimal_contract = <<"Decode Error: ", raised[1].exc.text>>
          /\ ParResult.score = <<"0">>

C4_Witness ==
    /\ Returned
    /\ Len(raised) = 1
    /\ raised[1].step = "decode"
    /\ Status = "ok"

----------------------------------------------------------------------------
(* C5 *)

\* C5: HISTORY_LOG holds one entry for each envelope solve_api got with
\* status "ok", in the order they were got, and none for the others; the
\* contract and score of an entry are the optimal_contract and score of its
\* envelope.
C5_HistoryMatchesOkSolves ==
    /\ Len(HISTORY_LOG) = Len(ok_results)
    /\ \A i \in 1..Len(HISTORY_LOG) :
          /\ HISTORY_LOG[i].contract = ok_results[i].optimal_contract
          /\ HISTORY_LOG[i].score = ok_results[i].score

\* an error envelope was served after an "ok" one made the only entry
C5_Witness ==
    /\ pc = "idle"
    /\ Len(HISTORY_LOG) = 1
    /\ HISTORY_LOG[1].contract = <<"7", "N", "T">>
    /\ response = Respond(200, "error")

----------------------------------------------------------------------------
(* C6 *)

\* C6: the envelope solve returns has exactly the fields status, message,
\* dd_table and par_result, the last with vulnerability, optimal_contract and
\* score; status is "ok" or "error"; with "error" the message is not empty,
\* dd_table is empty and par_result holds the defaults; with "ok" dd_table
\* has the five strains, each mapping N, E, S, W to a trick count.
C6_EnvelopeWellFormed ==
    Returned =>
        /\ DOMAIN result_data = {"status", "message", "dd_table", "par_result"}
        /\ DOMAIN ParResult = {"vulnerability", "optimal_contract", "score"}
        /\ Status \in {"ok", "error"}
        /\ Status = "error" =>
              /\ Message # <<>>
              /\ result_data.dd_table = <<>>
              /\ ParResult = [vulnerability |-> "Unknown", optimal_contract |-> <<"-">>,
                              score |-> <<"0">>]
        /\ Status = "ok" => Populated(result_data.dd_table)

C6_Witness ==
    /\ Returned
    /\ Status = "ok"
    /\ raised = <<>>
    /\ res_par = <<1>>
    /\ ParResult.optimal_contract = <<"7", "N", "T">>

----------------------------------------------------------------------------
(* C7 *)

\* C7: the deal given to CalcDDtable has 52 set bits over its 16 masks, and
\* a built table with another number of set bits is turned away before any
\* engine call.
C7_EngineGetsFullDeck ==
    /\ \A i \in 1..Len(calls) :
          calls[i].fn = "CalcDDtable" => TotalPopCount(calls[i].args[1]) = 52
    /\ (pc # "idle" /\ WellTyped(hands_dict) /\ TotalPopCount(deal) # 52) => calls = <<>>

----------------------------------------------------------------------------
(* C8 *)

\* section 4.3 of the specification: the cycle of sixteen boards
VulnerabilityCycle ==
    <<"None", "NS", "EW", "Both", "NS", "EW", "Both", "None",
      "EW", "Both", "None", "NS", "Both", "None", "NS", "EW">>

VulnerabilityCode ==
    [l \in {"None", "NS", "EW", "Both"} |->
        CASE l = "None" -> 0 [] l = "NS" -> 1 [] l = "EW" -> 2 [] l = "Both" -> 3]

\* C8: in a solve at a round r >= 1, the code given to Par is that of entry
\* (r - 1) mod 16 of the cycle, get_vulnerability(r + 16) is the same code,
\* and the envelope of a solve that ends "ok" carries the entry's label.
C8_VulnerabilityCycle ==
    (pc # "idle" /\ round_num.type = "int" /\ round_num.val >= 1) =>
        LET label == VulnerabilityCycle[((round_num.val - 1) % 16) + 1]
        IN  /\ \A i \in 1..Len(calls) :
                  calls[i].fn = "Par" =>
                      /\ calls[i].args[2] = VulnerabilityCode[label]
                      /\ get_vulnerability(round_num.val + 16) = calls[i].args[2]
            /\ (Returned /\ Status = "ok") => ParResult.vulnerability = label

C8_Witness ==
    /\ Returned
    /\ Status = "ok"
    /\ round_num = IntRound(17)
    /\ ParResult.vulnerability = "None"
    /\ calls[2].args[2] = 0

----------------------------------------------------------------------------
(* C9 *)

\* the card a token stands for
CardOf(t) == <<Upper(t[1]), Upper(t[2])>>

\* each of the four seats holds 13 two-character tokens of a rank and a suit,
\* and the 52 tokens stand for 52 different cards
ValidDeal(h) ==
    /\ Len(h) = 4
    /\ {h[a].player : a \in 1..4} = {"N", "E", "S", "W"}
    /\ \A a \in 1..4 :
          /\ Len(h[a].cards) = 13
          /\ \A j \in 1..13 : Accepted(h[a].cards[j]) /\ Len(h[a].cards[j]) = 2
    /\ Cardinality({CardOf(h[x[1]].cards[x[2]]) : x \in (1..4) \X (1..13)}) = 52

\* C9: for a deal of four seats with 13 valid tokens each, the 52 standing
\* for different cards, the mask table has 52 set bits, 13 in each suit,
\* each of the bits 2..14 in exactly one seat of each suit and no other bit,
\* the counter is 52 and the solve goes on to the engine.
C9_ValidDealEncoding ==
    (pc # "idle" /\ ValidDeal(hands_dict)) =>
        /\ TotalPopCount(deal) = 52
        /\ \A s \in 0..3 : SuitPopCount(deal, s) = 13
        /\ \A s \in 0..3 : \A k \in 2..14 :
              Cardinality({p \in 0..3 : BitSet(deal[p][s], k)}) = 1
        /\ \A p \in 0..3 : \A s \in 0..3 : deal[p][s] % 4 = 0 /\ deal[p][s] < 2 ^ 15
        /\ total_cards = 52
        /\ Returned => calls # <<>>

\* the mixed deal with the first token of N in lower case
C9_Witness ==
    /\ pc = "CalcDDtable"
    /\ ValidDeal(hands_dict)
    /\ hands_dict[1].cards[1] = <<"a", "d">>
    /\ TotalPopCount(deal) = 52

----------------------------------------------------------------------------
(* C10 *)

\* the (seat, token) pairs of a mapping
PairSet(h) ==
    {<<h[x[1]].player, h[x[1]].cards[x[2]]>> :
        x \in UNION {{<<a, j>> : j \in 1..Len(h[a].cards)} : a \in 1..Len(h)}}

\* the same mapping with its seats, or the tokens of its seats, in reverse
Rearranged(h) ==
    {Reverse(h), [a \in 1..Len(h) |-> [h[a] EXCEPT !.cards = Reverse(@)]]}
    \cup {[h EXCEPT ![a].cards = Reverse(@)] : a \in 1..Len(h)}

PairSetOf == [g \in HandsInputs |-> PairSet(g)]

\* the enumerated inputs with the pairs of h
SamePairs(h) ==
    LET pairs == PairSet(h)
    IN  {g \in HandsInputs : PairSetOf[g] = pairs /\ WellTyped(g)}

\* a mask as the set of its ranks, and back
DecodeRanks(mask) == {c \in DOMAIN RankMap : (mask \div RankMap[c]) % 2 = 1}

RECURSIVE EncodeRanks(_)
EncodeRanks(ranks) ==
    IF ranks = {} THEN 0
    ELSE LET c == CHOOSE c \in ranks : TRUE
         IN  BitOr(RankMap[c], EncodeRanks(ranks \ {c}))

\* C10: the mask table of a mapping is that of every mapping with the same
\* (seat, token) pairs: the mapping itself built again, its seats or tokens
\* in another order, a token given twice; and every mask is the encoding of
\* the rank set it decodes to.
C10_BuildDependsOnPairsOnly ==
    (pc # "idle" /\ calls = <<>> /\ WellTyped(hands_dict)) =>
        /\ \A g \in {hands_dict} \cup Rearranged(hands_dict) \cup SamePairs(hands_dict) :
              BuildDeal(g).cards = deal
        /\ \A p \in 0..3 : \A s \in 0..3 : EncodeRanks(DecodeRanks(deal[p][s])) = deal[p][s]

\* the first two tokens of N the other way round, and N's first token twice
C10_Witness ==
    /\ pc = "CalcDDtable"
    /\ hands_dict = SwapCards(CURRENT_HANDS, 1, 1)
    /\ deal = BuildDeal(CURRENT_HANDS).cards
    /\ deal = BuildDeal(AppendCard(CURRENT_HANDS, 1, CURRENT_HANDS[1].cards[1])).cards

----------------------------------------------------------------------------
(* C11 *)

\* the contract string Par left in slot 0, decoded
DecodedContract == DecodeUtf8(Value(pres.parContractsString[1])).text

HasColon(s) == \E i \in 1..Len(s) : s[i] = ":"

\* everything after the first colon of s
AfterFirstColon(s) ==
    LET k == CHOOSE i \in 1..Len(s) : s[i] = ":" /\ \A j \in 1..(i - 1) : s[j] # ":"
    IN  SubSeq(s, k + 1, Len(s))

\* Par returned 1 and its slot 0 was decoded and stripped
Stripped == Returned /\ res_par = <<1>> /\ raised = <<>>

\* C11: the contract of the envelope is the decoded string without its text
\* up to and including the first colon (later colons kept), and the decoded
\* string itself when it has no colon.
C11_EverythingAfterFirstColon ==
    Stripped =>
        ParResult.optimal_contract =
            IF HasColon(DecodedContract) THEN AfterFirstColon(DecodedContract)
            ELSE DecodedContract

----------------------------------------------------------------------------
(* C12 *)

\* C12: stripping the stripped contract gives the stripped contract again:
\* it holds no colon, so the second pass returns it as it is.
C12_StripIdempotent ==
    Stripped =>
        /\ ~HasColon(ParResult.optimal_contract)
        /\ StripPrefix(ParResult.optimal_contract) = ParResult.optimal_contract

\* "7:N:" was stripped to "N"
C12_Witness ==
    /\ Stripped
    /\ DecodedContract = <<"7", ":", "N", ":">>
    /\ ParResult.optimal_contract = <<"N">>
    /\ StripPrefix(<<"N">>) = <<"N">>

----------------------------------------------------------------------------
(* C13 *)

CallsOf(fn) == {i \in 1..Len(calls) : calls[i].fn = fn}

\* CalcDDtable at most once, Par at most once, after a CalcDDtable that
\* returned 1, on the table it filled and with the vulnerability of the round
CallsInOrder ==
    /\ Cardinality(CallsOf("CalcDDtable")) <= 1
    /\ Cardinality(CallsOf("Par")) <= 1
    /\ \A i \in CallsOf("Par") :
          /\ i = 2
          /\ calls[1].fn = "CalcDDtable"
          /\ res_dd = <<1>>
          /\ table \in TableInputs
          /\ calls[i].args = <<table, get_vulnerability(round_num.val)>>

\* the run passed validation and CalcDDtable returned 1
StageOnePassed == Returned /\ total_cards = 52 /\ res_dd = <<1>>

\* C13, as claimed: the calls are in order, and a run that passed validation
\* and whose CalcDDtable returned 1 has invoked the engine exactly twice.
C13_TwoCallsAfterStageOne ==
    /\ CallsInOrder
    /\ StageOnePassed => Len(calls) = 2

\* C13, amended: the calls are in order; a run that passed validation, whose
\* CalcDDtable returned 1 and whose round_num is an int has invoked the
\* engine exactly twice; with a round_num that is no int the vulnerability
\* lookup raises after CalcDDtable and the engine was invoked once.
C13_EngineCallsOrdered ==
    /\ CallsInOrder
    /\ (StageOnePassed /\ round_num.type = "int") => Len(calls) = 2
    /\ (StageOnePassed /\ round_num.type # "int") =>
          /\ Len(calls) = 1
          /\ raised = <<[step |-> "get_vulnerability", exc |-> TypeErrorSub]>>

C13_Witness ==
    /\ Returned
    /\ round_num = IntRound(4)
    /\ res_dd = <<1>>
    /\ Len(calls) = 2
    /\ calls[1].fn = "CalcDDtable"
    /\ calls[2] = [fn |-> "Par", args |-> <<table, 3>>]
    /\ table \in TableInputs

----------------------------------------------------------------------------
(* C14 *)

\* the key of the engine's strain index 0..4 (S, H, D, C, NT) and the label of
\* its seat index 0..3
StrainName == <<"Pik", "Kier", "Karo", "Trefl", "NT">>
SeatName == <<"N", "E", "S", "W">>

\* dd[key], the value stored under a key
Lookup(dd, key) == dd[CHOOSE k \in 1..Len(dd) : dd[k].key = key].val

\* C14: in an envelope with status "ok" the keys of dd_table come in the
\* order NT, S, H, D, C, and the value under strain i and seat j is
\* resTable[i][j] as the engine wrote it, whatever the number.
C14_TableCopiedInDisplayOrder ==
    (Returned /\ Status = "ok") =>
        /\ [k \in 1..Len(result_data.dd_table) |-> result_data.dd_table[k].key]
              = <<"NT", "Pik", "Kier", "Karo", "Trefl">>
        /\ \A i \in 0..4 : \A j \in 0..3 :
              Lookup(result_data.dd_table, StrainName[i + 1])[SeatName[j + 1]] = table[i][j]

\* the table with 13 - (4i + j) in cell [i][j]: NT holds -3, -4, -5, -6
C14_Witness ==
    /\ Returned
    /\ Status = "ok"
    /\ table[4][0] = -3
    /\ result_data.dd_table[1] =
          [key |-> "NT", val |-> [N |-> -3, E |-> -4, S |-> -5, W |-> -6]]
    /\ Lookup(result_data.dd_table, "Pik").E = 12

----------------------------------------------------------------------------
(* C15 *)

\* the bytes of the buffer up to its NUL are no UTF-8 text: 0xF8..0xFF occur
\* in no UTF-8 sequence
Undecodable(buf) ==
    \E i \in 1..Len(buf) : buf[i] >= 248 /\ \A j \in 1..(i - 1) : buf[j] # 0

\* C15: when Par returned 1 and slot 0 of the contract buffer or of the score
\* buffer does not decode, no exception leaves solve and the envelope has
\* status "ok", the trick table as CalcDDtable filled it, the vulnerability
\* of the round, score "0" and "Decode Error: <description>" as
\* optimal_contract.
C15_DecodeErrorCaught ==
    (Returned /\ res_par = <<1>>
        /\ (Undecodable(pres.parContractsString[1]) \/ Undecodable(pres.parScore[1]))) =>
        /\ ~propagated
        /\ Status = "ok"
        /\ Populated(result_data.dd_table)
        /\ \A i \in 0..4 : \A j \in 0..3 :
              Lookup(result_data.dd_table, StrainName[i + 1])[SeatName[j + 1]] = table[i][j]
        /\ ParResult.vulnerability
              = VulnerabilityCycle[((round_num.val - 1) % 16) + 1]
        /\ ParResult.score = <<"0">>
        /\ Len(ParResult.optimal_contract) = 2
        /\ ParResult.optimal_contract[1] = "Decode Error: "
        /\ ParResult.optimal_contract[2] = "'utf-8' codec can't decode byte 0xff"

\* the contract "NS:7NT" decodes, the score does not
C15_Witness ==
    /\ Returned
    /\ res_par = <<1>>
    /\ pres.parContractsString[1] = <<78, 83, 58, 55, 78, 84, 0>>
    /\ pres.parScore[1] = <<78, 255, 0>>
    /\ Status = "ok"
    /\ ParResult.optimal_contract[1] = "Decode Error: "

----------------------------------------------------------------------------
(* C16 *)

Known(id) == \E i \in 1..Len(HISTORY_LOG) : HISTORY_LOG[i].id = id

\* the positions whose entry the step changes
Changed == {i \in 1..Len(HISTORY_LOG) : HISTORY_LOG'[i] # HISTORY_LOG[i]}

\* C16: no step shortens HISTORY_LOG or changes the id, time, contract or
\* score of an entry or the order of the entries; a step that changes an
\* entry is an edit_history request and changes that one entry only, the one
\* with the id given; an edit_history request with an id of the log is
\* answered "ok" and leaves the length and every other entry as they were,
\* one with an unknown id is answered with an error and leaves HISTORY_LOG
\* as it was.
C16_HistoryFrame ==
    [][/\ Len(HISTORY_LOG') >= Len(HISTORY_LOG)
       /\ \A i \in 1..Len(HISTORY_LOG) :
             /\ HISTORY_LOG'[i].id = HISTORY_LOG[i].id
             /\ HISTORY_LOG'[i].time = HISTORY_LOG[i].time
             /\ HISTORY_LOG'[i].contract = HISTORY_LOG[i].contract
             /\ HISTORY_LOG'[i].score = HISTORY_LOG[i].score
       /\ Changed # {} =>
             /\ Cardinality(Changed) = 1
             /\ Len(HISTORY_LOG') = Len(HISTORY_LOG)
             /\ \E id \in IdInputs :
                   /\ \A i \in Changed : HISTORY_LOG[i].id = id
                   /\ \E data \in EditData : edit_history(id, data)
       /\ \A id \in IdInputs :
             (pc = "idle" /\ response' = (IF Known(id) THEN RespondEntry(200, "ok", id)
                                                         ELSE Respond(404, "error"))) =>
                 \A data \in EditData :
                     edit_history(id, data) =>
                         IF Known(id)
                         THEN /\ response'.status = "ok"
                              /\ Len(HISTORY_LOG') = Len(HISTORY_LOG)
                              /\ \A i \in 1..Len(HISTORY_LOG) :
                                    HISTORY_LOG[i].id # id => HISTORY_LOG'[i] = HISTORY_LOG[i]
                         ELSE /\ response'.status = "error"
                              /\ HISTORY_LOG' = HISTORY_LOG]_vars

\* the last request was an edit_history of the first of two entries
C16_Witness ==
    /\ Len(HISTORY_LOG) = 2
    /\ response = [code |-> 200, status |-> "ok", entry |-> <<"1">>]
    /\ HISTORY_LOG[1].round = 0
    /\ HISTORY_LOG[2].round = -1
    /\ HISTORY_LOG[1].bid_contract = <<"3", "N", "T">>
    /\ HISTORY_LOG[1].contract = <<"7", "N", "T">>

----------------------------------------------------------------------------
(* C17 *)

\* the seats a user occupies
Holds(u) == {s \in DOMAIN TABLE_STATE : TABLE_STATE[s] = u}

\* both users asked for the seat and both were answered "ok"
BothAnsweredOk(seat) ==
    \A u \in Users :
        requests[u].pc = "done" /\ requests[u].seat = seat /\ requests[u].status = "ok"

\* C17: when two interleaved toggle_seat requests for the same seat were both
\* answered "ok", either one of the users left the seat, or both read the
\* seat as free at line 104 and then both wrote it: the seat holds one of
\* them and the other, answered "ok" as well, holds no seat at all.
C17_BothOkOneSeated ==
    \A seat \in DOMAIN TABLE_STATE :
        BothAnsweredOk(seat) =>
            \/ \E u \in Users : requests[u].current = u
            \/ /\ \A u \in Users : requests[u].current = None
               /\ \E w \in Users :
                     /\ TABLE_STATE[seat] = w
                     /\ \A u \in Users \ {w} : Holds(u) = {}

\* the race: both read N as free, both were answered "ok", and the first
\* user, who wrote last, has the seat
C17_Witness ==
    /\ BothAnsweredOk("N")
    /\ \A u \in Users : requests[u].current = None
    /\ TABLE_STATE["N"] = "10.0.0.1"
    /\ Holds("10.0.0.2") = {}
    /\ \A s \in {"S", "E", "W"} : TABLE_STATE[s] = None

----------------------------------------------------------------------------
(* C18 *)

\* C18: from the empty table, with toggle_seat, dev_fill_seats and
\* dev_clear_seats each served without interruption, no user occupies more
\* than one seat; a toggle_seat on a seat another occupant holds is answered
\* "busy" and leaves TABLE_STATE as it was, and one on the user's own seat
\* frees that seat and changes no other.
C18_OneSeatPerUser ==
    /\ [](\A u \in Users : Cardinality(Holds(u)) <= 1)
    /\ [][\A u \in Users, seat \in DOMAIN TABLE_STATE :
             toggle_seat(u, seat) =>
                 /\ TABLE_STATE[seat] \notin {None, u} =>
                       /\ response'.status = "busy"
                       /\ TABLE_STATE' = TABLE_STATE
                 /\ TABLE_STATE[seat] = u =>
                       /\ response'.status = "ok"
                       /\ TABLE_STATE'[seat] = None
                       /\ \A s \in DOMAIN TABLE_STATE \ {seat} :
                             TABLE_STATE'[s] = TABLE_STATE[s]]_vars

\* both users are seated, the bot has the other seats, and a request for a
\* seat that is taken was answered "busy"
C18_Witness ==
    /\ Holds("10.0.0.1") = {"N"}
    /\ Holds("10.0.0.2") = {"S"}
    /\ Holds(DEV_BOT) = {"E", "W"}
    /\ response = Respond(200, "busy")

----------------------------------------------------------------------------
(* C19 *)

\* C19: in a solve at any integer round, zero and the negative ones
\* included, the index (round - 1) mod 16 lies in 0..15 and the code looked
\* up lies in 0..3; the lookup raises nothing, so once CalcDDtable returned 1
\* the solve goes on to Par, which gets the code.
C19_VulnerabilityTotal ==
    (pc # "idle" /\ round_num.type = "int") =>
        /\ vul_index(round_num.val) \in 0..15
        /\ get_vulnerability(round_num.val) \in 0..3
        /\ \A i \in 1..Len(raised) : raised[i].step # "get_vulnerability"
        /\ res_dd = <<1>> =>
              /\ pc = "Par" \/ Len(calls) = 2
              /\ \A i \in CallsOf("Par") :
                    calls[i].args[2] = vul_pattern[vul_index(round_num.val) + 1]

\* the solve at round -16, whose index is 15
C19_Witness ==
    /\ Returned
    /\ round_num = IntRound(-16)
    /\ Status = "ok"
    /\ vul_index(-16) = 15
    /\ calls[2].args[2] = 2
    /\ ParResult.vulnerability = "EW"

----------------------------------------------------------------------------
(* C20 *)

\* the first chunk of the last line printed
LastPrinted == stdout[Len(stdout)][1]

\* C20: when solve_debug_console was given 52 cards and CalcDDtable returned
\* 1, the call ends without an exception, having printed the trick table,
\* invoked Par once with the vulnerability code of the round, and printed the
\* PAR result or the PAR error last.
C20_ConsoleGoesOnToPar ==
    (caller = "console" /\ Returned /\ total_cards = 52 /\ res_dd = <<1>>) =>
        /\ ~propagated
        /\ raised = <<>>
        /\ Contains(stdout, ConsoleTable(table))
        /\ Cardinality(CallsOf("Par")) = 1
        /\ \A i \in CallsOf("Par") :
              calls[i].args[2] = vul_pattern[((round_num.val - 1) % 16) + 1]
        /\ LastPrinted \in {"Score:            ", "PAR Calculation Error, code: "}

====
